---- MODULE Spec2Model ----
(***************************************************************************)
(* Tick replay engine and position book of src/src/app/page.tsx, with the  *)
(* paged tick endpoint of src/unnamed/part_003 as its data provider.       *)
(*                                                                         *)
(* Scaling.  Timestamps are nanoseconds since the start of the trading     *)
(* day, with NsPerSec = 2 and SecPerMin = 2 (the source: 1000000000 and    *)
(* 60), so that a minute is four clock units; a frame's delta is in        *)
(* milliseconds of NsPerMs = 2 clock units (the source: 1000000).  The     *)
(* page limit and the refill threshold are scaled from 50000 and 10000 to  *)
(* 2 and 2.  Sizes, multipliers and the opening balance are the source's   *)
(* numbers; prices are small whole numbers.                                *)
(* avgPrice, pnl and accountBalance are exact fractions [n, d]; a          *)
(* denominator of 0 stands for the IEEE results of a division by zero      *)
(* (n = 0: NaN, n = 1 or -1: +/-Infinity).                                 *)
(***************************************************************************)
EXTENDS Integers, Sequences, FiniteSets, TLC

\* ------------------------------------------------------------------ bounds
MaxClock == 9      \* frames stop advancing the virtual clock beyond this
MaxDelta == 2       \* largest wall-clock delta of one frame (scaled ms)
MaxFills == 2       \* orders accepted in one behaviour
MaxBothFills == 3   \* the same, where both instruments are traded
MaxLoads == 2       \* session loads awaiting their pages at one time
MaxTicks == 3       \* rows of a table drawn from every ordered table

\* ------------------------------------------------------- program constants
MARKET_OPEN_MIN == 570
THRESHOLD == 2
Limit == 2
NsPerSec == 2
SecPerMin == 2
NsPerMs == 2
StartBalance == 100000

Instruments == {"es", "nq"}
Sides == {"LONG", "SHORT"}
Layouts == {"SPLIT", "ES", "NQ"}
ContractTypes == {"MINI", "MICRO"}
StopTypes == {"SL", "TP"}

toUpperCase(k) == IF k = "es" THEN "ES" ELSE "NQ"
toLowerCase(s) == IF s = "ES" THEN "es" ELSE "nq"
Symbols == {toUpperCase(k) : k \in Instruments}

INSTRUMENTS ==
  [es |-> [symbol |-> "ES", multiplierMini |-> 50, multiplierMicro |-> 5],
   nq |-> [symbol |-> "NQ", multiplierMini |-> 20, multiplierMicro |-> 2]]

\* ------------------------------------------------------------- small maths
Max(a, b) == IF a >= b THEN a ELSE b
Min(a, b) == IF a <= b THEN a ELSE b
Abs(x) == IF x < 0 THEN -x ELSE x
Sign(x) == IF x < 0 THEN -1 ELSE IF x > 0 THEN 1 ELSE 0

RECURSIVE Gcd(_, _)
Gcd(a, b) == IF b = 0 THEN a ELSE Gcd(b, a % b)

\* Fractions in lowest terms with a positive denominator.
Frac(n, d) ==
  IF d = 0 THEN [n |-> Sign(n), d |-> 0]
  ELSE LET g == Gcd(Abs(n), Abs(d))
           s == Sign(d)
       IN [n |-> (s * n) \div g, d |-> (s * d) \div g]
Whole(x) == [n |-> x, d |-> 1]
FAdd(a, b) == Frac(a.n * b.d + b.n * a.d, a.d * b.d)
FSub(a, b) == Frac(a.n * b.d - b.n * a.d, a.d * b.d)
FMul(a, b) == Frac(a.n * b.n, a.d * b.d)
FDiv(a, b) == Frac(a.n * b.d, a.d * b.n)

\* ------------------------------------------------------------ data provider
\* ny_minute_of_day of a timestamp: the day opens at MARKET_OPEN_MIN.
MinuteOfDay(ts) == MARKET_OPEN_MIN + (ts \div (NsPerSec * SecPerMin))
T(ts, price) == [ts |-> ts, price |-> price, m |-> MinuteOfDay(ts)]

\* The rows of one trading day, per instrument table, ORDER BY ts_event_ns.
\* A day on which NQ trades up and back down within one minute.
MarkDay == [es |-> <<>>, nq |-> <<T(1, 2), T(3, 2), T(5, 3), T(7, 2)>>]

Days ==
  { [es |-> <<T(1, 2), T(7, 3)>>,
     nq |-> <<T(3, 2), T(5, 1), T(9, 3)>>],
    [es |-> <<>>,
     nq |-> <<T(1, 1), T(3, 2), T(3, 3), T(5, 1)>>],
    [es |-> <<T(1, 2)>>,
     nq |-> <<>>],
    [es |-> <<>>,
     nq |-> <<>>] }

RECURSIVE After(_, _)
After(rows, cursor) ==
  IF rows = <<>> THEN <<>>
  ELSE IF Head(rows).ts > cursor THEN rows
  ELSE After(Tail(rows), cursor)

\* GET /api/ticks: the first Limit rows with ts_event_ns > cursor.
GET(table, cursor) ==
  LET left == After(table, cursor)
      rows == SubSeq(left, 1, Min(Limit, Len(left)))
  IN [ticks |-> rows,
      nextCursor |-> IF Len(rows) > 0 THEN rows[Len(rows)].ts ELSE cursor,
      done |-> Len(rows) < Limit]

\* Every table of at most MaxTicks rows in timestamp order.
Rows == {T(ts, price) : ts \in {1, 3, 5, 9}, price \in {1, 2}}
OrderedTables ==
  UNION {{rows \in [1..n -> Rows] :
            \A i \in 1..(n - 1) : rows[i].ts <= rows[i + 1].ts} : n \in 1..MaxTicks}

\* ------------------------------------------------------------------- state
VARIABLES
  day,             \* the tables the endpoint serves
  engine,          \* engineRef.current.es / .nq
  globalTimeBig,   \* engineRef.current.globalTimeBig
  lastFrameTime,   \* engineRef.current.lastFrameTime: 0 unset, 1 set
  refill,          \* the checkAndFetchMore call in flight (loadingMore)
  loads,           \* loadData calls awaiting their pages, oldest first
  selectedDay, currentMinute, isPlaying, playbackSpeed, layout, charts,
  contractType, loopContractType, orderSize,
  positions, accountBalance, editMode, subscribed,
  fills,           \* orders accepted so far
  lastOp           \* the step that led to this state

vars == <<day, engine, globalTimeBig, lastFrameTime, refill, loads, selectedDay,
          currentMinute, isPlaying, playbackSpeed, layout, charts, contractType, loopContractType,
          orderSize, positions, accountBalance, editMode, subscribed, fills,
          lastOp>>

NoCandle == [time |-> 0, open |-> 0, high |-> 0, low |-> 0, close |-> 0]
\* folds counts the ticks folded since the stream was last reset, and failed
\* tells that the stream's latest refill fetch was rejected (history).
NewStream == [buffer |-> <<>>, cursor |-> 0, done |-> FALSE,
              lastLoadedIndex |-> -1, currentPrice |-> 0, candle |-> NoCandle,
              folds |-> 0, failed |-> FALSE]
NoRefill == [stage |-> "idle", cursor |-> 0, needsNq |-> FALSE, stale |-> FALSE]
NoPosition == [side |-> "NONE", avgPrice |-> Whole(0), size |-> 0,
               sl |-> 0, tp |-> 0, pnl |-> Whole(0)]
NoEdit == [symbol |-> "NONE", type |-> "NONE"]
None == "-"

loadingMore == refill.stage # "idle"

\* ------------------------------------------------------- candle aggregation
\* Mutant: the candle time is the tick's second, not floored to the minute.
minuteTime_Seconds(ts) == ts \div NsPerSec

minuteTime(ts) == ((ts \div NsPerSec) \div SecPerMin) * SecPerMin

\* Mutant: a tick of the open minute does not raise the candle's high.
foldTick_KeepsHigh(state, tick) ==
  LET price == tick.price
      mt == minuteTime(tick.ts)
      c == state.candle
      fresh == [time |-> mt, open |-> price, high |-> price, low |-> price,
                close |-> price]
  IN [state EXCEPT
        !.currentPrice = price,
        !.folds = state.folds + 1,
        !.candle = IF c = NoCandle THEN fresh
                   ELSE IF c.time # mt THEN fresh
                   ELSE [c EXCEPT !.low = Min(c.low, price),
                                  !.close = price]]

\* The body of processInstrumentTick's loop: one tick folded by a frame.
foldTick(state, tick) ==
  LET price == tick.price
      mt == minuteTime(tick.ts)
      c == state.candle
      fresh == [time |-> mt, open |-> price, high |-> price, low |-> price,
                close |-> price]
  IN [state EXCEPT
        !.currentPrice = price,
        !.folds = state.folds + 1,
        !.candle = IF c = NoCandle THEN fresh
                   ELSE IF c.time # mt THEN fresh
                   ELSE [c EXCEPT !.high = Max(c.high, price),
                                  !.low = Min(c.low, price),
                                  !.close = price]]

\* while (idx < buffer.length) { if (tickTs > globalTime) break; ...; idx++ }
RECURSIVE tickLoop(_, _, _)
tickLoop(state, idx, globalTime) ==
  IF idx < Len(state.buffer) /\ ~(state.buffer[idx + 1].ts > globalTime)
  THEN tickLoop(foldTick(state, state.buffer[idx + 1]), idx + 1, globalTime)
  ELSE [state EXCEPT !.lastLoadedIndex = idx - 1]

\* Mutant: the loop's last line, state.lastLoadedIndex = idx - 1, is lost.
processInstrumentTick_NoStore(state, chart, globalTime) ==
  IF Len(state.buffer) = 0 \/ ~chart THEN state
  ELSE [tickLoop(state, state.lastLoadedIndex + 1, globalTime)
          EXCEPT !.lastLoadedIndex = state.lastLoadedIndex]

processInstrumentTick(state, chart, globalTime) ==
  IF Len(state.buffer) = 0 \/ ~chart THEN state
  ELSE tickLoop(state, state.lastLoadedIndex + 1, globalTime)

\* Mutant: the seek leaves the close of an open candle where it was.
syncTick_KeepsClose(state, tick) ==
  LET price == tick.price
      mt == minuteTime(tick.ts)
      c == state.candle
      fresh == [time |-> mt, open |-> price, high |-> price, low |-> price,
                close |-> price]
  IN [state EXCEPT
        !.currentPrice = price,
        !.folds = state.folds + 1,
        !.candle = IF c = NoCandle THEN fresh
                   ELSE IF c.time # mt THEN fresh
                   ELSE [c EXCEPT !.high = Max(c.high, price),
                                  !.low = Min(c.low, price)]]

\* The body of processSync's loop: one tick folded by a seek.  The finished
\* candle goes to the chart, if there is one, before the next is opened.
syncTick(state, tick) ==
  LET price == tick.price
      mt == minuteTime(tick.ts)
      c == state.candle
  IN [state EXCEPT
        !.currentPrice = price,
        !.folds = state.folds + 1,
        !.candle = IF c = NoCandle
                   THEN [time |-> mt, open |-> price, high |-> price,
                         low |-> price, close |-> price]
                   ELSE IF c.time # mt
                   THEN [time |-> mt, open |-> price, high |-> price,
                         low |-> price, close |-> price]
                   ELSE [c EXCEPT !.high = Max(c.high, price),
                                  !.low = Min(c.low, price),
                                  !.close = price]]

\* while (idx < buffer.length) { if (tick.m >= targetMin) { ...; break } ...; idx++ }
RECURSIVE syncLoop(_, _, _)
syncLoop(state, idx, targetMin) ==
  IF idx < Len(state.buffer) /\ ~(state.buffer[idx + 1].m >= targetMin)
  THEN syncLoop(syncTick(state, state.buffer[idx + 1]), idx + 1, targetMin)
  ELSE [state |-> [state EXCEPT !.lastLoadedIndex = idx - 1],
        hit |-> idx < Len(state.buffer),
        ts |-> IF idx < Len(state.buffer) THEN state.buffer[idx + 1].ts ELSE 0]

processSync(state, targetMin) ==
  IF Len(state.buffer) = 0 THEN [state |-> state, hit |-> FALSE, ts |-> 0]
  ELSE syncLoop(state, state.lastLoadedIndex + 1, targetMin)

\* The clock after processSync("es"); processSync("nq") with the shared caughtUp.
syncClock(startNs, es, nq) ==
  IF es.hit THEN es.ts ELSE IF nq.hit THEN nq.ts ELSE startNs

\* ------------------------------------------------------------- refill check
needs(state) ==
  ~state.done /\ (Len(state.buffer) - state.lastLoadedIndex) < THRESHOLD

\* The synchronous part of checkAndFetchMore, up to its first await.
checkAndFetchMore(rf, eng) ==
  IF rf.stage # "idle" THEN rf
  ELSE IF ~needs(eng.es) /\ ~needs(eng.nq) THEN rf
  ELSE IF needs(eng.es)
       THEN [stage |-> "es", cursor |-> eng.es.cursor,
             needsNq |-> needs(eng.nq), stale |-> FALSE]
       ELSE [stage |-> "nq", cursor |-> eng.nq.cursor,
             needsNq |-> TRUE, stale |-> FALSE]

\* buffer = [...buffer, ...data.ticks]; cursor = data.nextCursor; done = data.done
merge(state, data) ==
  [state EXCEPT !.buffer = state.buffer \o data.ticks,
                !.cursor = data.nextCursor,
                !.done = data.done,
                !.failed = FALSE]

\* ------------------------------------------------------------ position book
\* Mutant: the contract type is ignored.
multiplier_MiniOnly(instrument, ct) == INSTRUMENTS[instrument].multiplierMini

multiplier(instrument, ct) ==
  IF ct = "MINI" THEN INSTRUMENTS[instrument].multiplierMini
  ELSE INSTRUMENTS[instrument].multiplierMicro

\* pos.side === "LONG" ? (currentPrice - pos.avgPrice) : (pos.avgPrice - currentPrice)
directionalDiff(side, avgPrice, currentPrice) ==
  IF side = "LONG" THEN FSub(Whole(currentPrice), avgPrice)
  ELSE FSub(avgPrice, Whole(currentPrice))

\* Mutant: the stop-loss comparisons are strict.
slHit_Strict(pos, currentPrice) ==
  /\ pos.sl # 0
  /\ \/ pos.side = "LONG" /\ currentPrice < pos.sl
     \/ pos.side = "SHORT" /\ currentPrice > pos.sl

slHit(pos, currentPrice) ==
  /\ pos.sl # 0
  /\ \/ pos.side = "LONG" /\ currentPrice <= pos.sl
     \/ pos.side = "SHORT" /\ currentPrice >= pos.sl

tpHit(pos, currentPrice) ==
  /\ pos.tp # 0
  /\ \/ pos.side = "LONG" /\ currentPrice >= pos.tp
     \/ pos.side = "SHORT" /\ currentPrice <= pos.tp

\* Mutant: a mark that closes nothing realizes the open pnl all the same.
markPosition_RealizesOpenPnl(pos, currentPrice, multi) ==
  IF pos = NoPosition \/ currentPrice = 0
  THEN [pos |-> pos, realized |-> Whole(0), closed |-> FALSE]
  ELSE LET pnl == FMul(FMul(directionalDiff(pos.side, pos.avgPrice, currentPrice),
                            Whole(multi)), Whole(pos.size))
       IN IF slHit(pos, currentPrice)
          THEN [pos |-> NoPosition, realized |-> pnl, closed |-> TRUE]
          ELSE IF tpHit(pos, currentPrice)
          THEN [pos |-> NoPosition, realized |-> pnl, closed |-> TRUE]
          ELSE [pos |-> [pos EXCEPT !.pnl = pnl], realized |-> pnl,
                closed |-> FALSE]

\* One iteration of updatePnL's forEach: the position afterwards and what is
\* added to the balance.
markPosition(pos, currentPrice, multi) ==
  IF pos = NoPosition \/ currentPrice = 0
  THEN [pos |-> pos, realized |-> Whole(0), closed |-> FALSE]
  ELSE LET pnl == FMul(FMul(directionalDiff(pos.side, pos.avgPrice, currentPrice),
                            Whole(multi)), Whole(pos.size))
       IN IF slHit(pos, currentPrice)
          THEN [pos |-> NoPosition, realized |-> pnl, closed |-> TRUE]
          ELSE IF tpHit(pos, currentPrice)
          THEN [pos |-> NoPosition, realized |-> pnl, closed |-> TRUE]
          ELSE [pos |-> [pos EXCEPT !.pnl = pnl], realized |-> Whole(0),
                closed |-> FALSE]

\* Mutant: a position is marked against the high of the open candle.
updatePnL_MarksHigh(prev, eng, ct) ==
  [sym \in Symbols |->
     markPosition(prev[sym], eng[toLowerCase(sym)].candle.high,
                  multiplier(toLowerCase(sym), ct))]

updatePnL(prev, eng, ct) ==
  [sym \in Symbols |->
     markPosition(prev[sym], eng[toLowerCase(sym)].currentPrice,
                  multiplier(toLowerCase(sym), ct))]

\* closedPnL of handleOrder for n contracts closed at currentPrice.
closedPnL(existing, currentPrice, n, multi) ==
  FMul(FMul(directionalDiff(existing.side, existing.avgPrice, currentPrice),
            Whole(n)), Whole(multi))

\* { symbol, side, avgPrice: currentPrice, size, pnl: 0 }
openPosition(side, currentPrice, size) ==
  [side |-> side, avgPrice |-> Whole(currentPrice), size |-> size,
   sl |-> 0, tp |-> 0, pnl |-> Whole(0)]

\* Mutant: the average ignores the sizes.
addToPosition_Unweighted(existing, currentPrice, size) ==
  [existing EXCEPT
     !.avgPrice = FDiv(FAdd(existing.avgPrice, Whole(currentPrice)), Whole(2)),
     !.size = existing.size + size]

\* The same-side branch: newPos = { ...existing } with avgPrice and size set.
addToPosition(existing, currentPrice, size) ==
  LET totalCost == FAdd(FMul(existing.avgPrice, Whole(existing.size)),
                        Whole(currentPrice * size))
      totalSize == existing.size + size
  IN [existing EXCEPT !.avgPrice = FDiv(totalCost, Whole(totalSize)),
                      !.size = totalSize]

\* Mutant: the reduced position is rebuilt without its stops.
reducePosition_DropsStops(existing, size) ==
  [existing EXCEPT !.size = existing.size - size, !.sl = 0, !.tp = 0]

\* The partial close: newPos = { ...existing } with size reduced.
reducePosition(existing, size) ==
  [existing EXCEPT !.size = existing.size - size]

\* Mutant: the flipped position is spread from the existing one.
flipPosition_KeepsStops(existing, side, currentPrice, size) ==
  [existing EXCEPT !.side = side, !.avgPrice = Whole(currentPrice),
                   !.size = size - existing.size, !.pnl = Whole(0)]

\* The close-and-flip: a new position for what the fill exceeds.
flipPosition(existing, side, currentPrice, size) ==
  openPosition(side, currentPrice, size - existing.size)

\* The setPositions updater of handleOrder for one symbol: the position
\* afterwards, what is added to the balance, and the branch taken.
fillPosition(existing, side, currentPrice, size, multi) ==
  IF existing = NoPosition
  THEN [pos |-> openPosition(side, currentPrice, size),
        realized |-> Whole(0), branch |-> "order:open"]
  ELSE IF existing.side = side
  THEN [pos |-> addToPosition(existing, currentPrice, size),
        realized |-> Whole(0), branch |-> "order:add"]
  ELSE IF existing.size > size
  THEN [pos |-> reducePosition(existing, size),
        realized |-> closedPnL(existing, currentPrice, size, multi),
        branch |-> "order:partial"]
  ELSE IF existing.size = size
  THEN [pos |-> NoPosition,
        realized |-> closedPnL(existing, currentPrice, size, multi),
        branch |-> "order:close"]
  ELSE [pos |-> flipPosition(existing, side, currentPrice, size),
        realized |-> closedPnL(existing, currentPrice, existing.size, multi),
        branch |-> "order:flip"]

\* Mutant: a stop at the current price is let through.
isValid_NonStrict(pos, type, price, currentPrice) ==
  IF pos.side = "LONG"
  THEN /\ ~(type = "SL" /\ price > currentPrice)
       /\ ~(type = "TP" /\ price < currentPrice)
  ELSE /\ ~(type = "SL" /\ price < currentPrice)
       /\ ~(type = "TP" /\ price > currentPrice)

\* handleChartClick's validation: the message-free isValid flag.
isValid(pos, type, price, currentPrice) ==
  IF pos.side = "LONG"
  THEN /\ ~(type = "SL" /\ price >= currentPrice)
       /\ ~(type = "TP" /\ price <= currentPrice)
  ELSE /\ ~(type = "SL" /\ price <= currentPrice)
       /\ ~(type = "TP" /\ price >= currentPrice)

\* The setPositions updater of handleChartClick for the edited symbol.
placeStop(pos, type, price, currentPrice) ==
  IF pos = NoPosition THEN pos
  ELSE IF ~isValid(pos, type, price, currentPrice) THEN pos
  ELSE IF type = "SL" THEN [pos EXCEPT !.sl = price]
  ELSE [pos EXCEPT !.tp = price]

\* ----------------------------------------------------------------- inputs
Targets == {MARKET_OPEN_MIN, MARKET_OPEN_MIN + 1, MARKET_OPEN_MIN + 2}
Speeds == {1, 2}
OrderSizes == {0, 1, 2}
ClickPrices == {1, 3}
\* Frame timestamps are fractions of a millisecond: the steps of one.
TicksPerMs == 4
Deltas == {Frac(q, TicksPerMs) : q \in 1..(MaxDelta * TicksPerMs)}

visible(instrument) ==
  IF instrument = "es" THEN layout \in {"ES", "SPLIT"} ELSE layout \in {"NQ", "SPLIT"}

\* ------------------------------------------------------------------ Init
\* The component as mounted: the useState and useRef initial values, and the
\* chart of the initial layout.
Constructed ==
  /\ engine = [k \in Instruments |-> NewStream]
  /\ globalTimeBig = 0
  /\ lastFrameTime = 0
  /\ refill = NoRefill
  /\ loads = <<>>
  /\ selectedDay = ""
  /\ currentMinute = MARKET_OPEN_MIN
  /\ isPlaying = FALSE
  /\ playbackSpeed = 1
  /\ layout = "NQ"
  /\ charts = {"nq"}
  /\ contractType = "MINI"
  /\ loopContractType = "MINI"
  /\ orderSize = 1
  /\ positions = [sym \in Symbols |-> NoPosition]
  /\ accountBalance = Whole(StartBalance)
  /\ editMode = NoEdit
  /\ subscribed = {}
  /\ fills = 0
  /\ lastOp = None

Init == day \in Days /\ Constructed

\* Mutant: the effect does not restart frame timing.
loopEffect_KeepsFrameTime(playing, changed) ==
  /\ lastFrameTime' = lastFrameTime
  /\ loopContractType' = IF changed THEN contractType ELSE loopContractType

\* useEffect(..., [isPlaying, playbackSpeed]): the frame loop is re-registered
\* from the current render whenever one of the two changes.
loopEffect(playing, changed) ==
  /\ lastFrameTime' = IF changed /\ playing THEN 0 ELSE lastFrameTime
  /\ loopContractType' = IF changed THEN contractType ELSE loopContractType

\* Mutant: the reset leaves the consume index where it was.
resetStream_KeepsIndex(state) ==
  [state EXCEPT !.buffer = <<>>, !.cursor = 0, !.done = FALSE,
                !.candle = NoCandle, !.folds = 0, !.failed = FALSE]

\* { ...state, buffer: [], cursor: "0", done: false, lastLoadedIndex: -1,
\*   candle: null }: the current price is carried over.
resetStream(state) ==
  [state EXCEPT !.buffer = <<>>, !.cursor = 0, !.done = FALSE,
                !.lastLoadedIndex = -1, !.candle = NoCandle,
                !.folds = 0, !.failed = FALSE]

\* ------------------------------------------------------------ session load
\* loadData up to its await: handleDaySelect, jumpTo1450, jumpToSpecificTime
\* and the arrow keys.
LoadData(targetMin) ==
  /\ Len(loads) < MaxLoads
  /\ targetMin = MARKET_OPEN_MIN \/ selectedDay # ""
  /\ selectedDay' = "d"
  /\ currentMinute' = targetMin
  /\ isPlaying' = FALSE
  /\ loopEffect(FALSE, isPlaying)
  /\ globalTimeBig' = 0
  /\ engine' = [k \in Instruments |-> resetStream(engine[k])]
  /\ positions' = [sym \in Symbols |-> NoPosition]
  /\ loads' = Append(loads, targetMin)
  /\ refill' = IF refill.stage # "idle" THEN [refill EXCEPT !.stale = TRUE] ELSE refill
  /\ lastOp' = "loadData"
  /\ UNCHANGED <<day, playbackSpeed, layout, charts, contractType, orderSize,
                 accountBalance, editMode, subscribed, fills>>

\* Mutant: the clock is seeded only when both first pages have ticks.
startNs_NeedsBoth(t1, t2) == IF t1 # 0 /\ t2 # 0 THEN Min(t1, t2) ELSE 0

\* let startNs = 0n; if (t1 && t2) ... else if (t1) ... else if (t2) ...
startNs(t1, t2) ==
  IF t1 # 0 /\ t2 # 0 THEN Min(t1, t2) ELSE IF t1 # 0 THEN t1 ELSE t2

Remove(seq, i) == SubSeq(seq, 1, i - 1) \o SubSeq(seq, i + 1, Len(seq))

\* What loadData does to the streams and the clock after its await, given
\* the two first pages: the outcome, and the streams and the clock it leaves.
session(eng, clock, esData, nqData, targetMin) ==
  LET es0 == merge([eng.es EXCEPT !.buffer = <<>>], esData)
      nq0 == merge([eng.nq EXCEPT !.buffer = <<>>], nqData)
      t1 == IF Len(esData.ticks) > 0 THEN esData.ticks[1].ts ELSE 0
      t2 == IF Len(nqData.ticks) > 0 THEN nqData.ticks[1].ts ELSE 0
      seed == startNs(t1, t2)
      es1 == processSync(es0, targetMin)
      nq1 == processSync(nq0, targetMin)
  IN IF seed = 0
     THEN [op |-> "loaded:nodata", engine |-> [es |-> es0, nq |-> nq0],
           globalTimeBig |-> clock]
     ELSE IF targetMin > MARKET_OPEN_MIN
     THEN [op |-> "loaded:seek", engine |-> [es |-> es1.state, nq |-> nq1.state],
           globalTimeBig |-> syncClock(seed, es1, nq1)]
     ELSE [op |-> "loaded:open", engine |-> [es |-> es0, nq |-> nq0],
           globalTimeBig |-> seed]

\* loadData after its await, both pages fetched.
LoadComplete(i) ==
  /\ i \in 1..Len(loads)
  /\ LET after == session(engine, globalTimeBig, GET(day.es, 0), GET(day.nq, 0),
                          loads[i])
     IN /\ loads' = Remove(loads, i)
        /\ engine' = after.engine
        /\ globalTimeBig' = after.globalTimeBig
        /\ lastOp' = after.op
        /\ IF lastOp' = "loaded:nodata"
           THEN UNCHANGED <<isPlaying, lastFrameTime, loopContractType>>
           ELSE /\ isPlaying' = TRUE
                /\ loopEffect(TRUE, ~isPlaying)
  /\ UNCHANGED <<day, refill, selectedDay, currentMinute, playbackSpeed, layout, charts,
                 contractType, orderSize, positions, accountBalance, editMode,
                 subscribed, fills>>

\* loadData after its await, a fetch having thrown: catch, finally.
LoadFail(i) ==
  /\ i \in 1..Len(loads)
  /\ loads' = Remove(loads, i)
  /\ lastOp' = "loaded:failed"
  /\ UNCHANGED <<day, engine, globalTimeBig, lastFrameTime, refill, selectedDay, currentMinute,
                 isPlaying, playbackSpeed, layout, charts, contractType,
                 loopContractType, orderSize, positions, accountBalance, editMode,
                 subscribed, fills>>

\* ---------------------------------------------------------------- controls
TogglePlay ==
  /\ isPlaying' = ~isPlaying
  /\ loopEffect(~isPlaying, TRUE)
  /\ lastOp' = IF isPlaying THEN "pause" ELSE "play"
  /\ UNCHANGED <<day, engine, globalTimeBig, refill, loads, selectedDay, currentMinute,
                 playbackSpeed, layout, charts, contractType, orderSize, positions,
                 accountBalance, editMode, subscribed, fills>>

SetSpeed(s) ==
  /\ s # playbackSpeed
  /\ playbackSpeed' = s
  /\ loopEffect(isPlaying, TRUE)
  /\ lastOp' = None
  /\ UNCHANGED <<day, engine, globalTimeBig, refill, loads, selectedDay, currentMinute, isPlaying,
                 layout, charts, contractType, orderSize, positions, accountBalance,
                 editMode, subscribed, fills>>

\* setLayout and the initChart effect it triggers.
SetLayout(l) ==
  /\ l # layout
  /\ layout' = l
  /\ charts' = charts \cup (IF l \in {"ES", "SPLIT"} THEN {"es"} ELSE {})
                      \cup (IF l \in {"NQ", "SPLIT"} THEN {"nq"} ELSE {})
  /\ lastOp' = None
  /\ UNCHANGED <<day, engine, globalTimeBig, lastFrameTime, refill, loads,
                 selectedDay, currentMinute, isPlaying, playbackSpeed, contractType,
                 loopContractType, orderSize, positions, accountBalance, editMode,
                 subscribed, fills>>

SetContractType(ct) ==
  /\ ct # contractType
  /\ contractType' = ct
  /\ lastOp' = None
  /\ UNCHANGED <<day, engine, globalTimeBig, lastFrameTime, refill, loads,
                 selectedDay, currentMinute, isPlaying, playbackSpeed, layout, charts,
                 loopContractType, orderSize, positions, accountBalance, editMode,
                 subscribed, fills>>

SetOrderSize(n) ==
  /\ n # orderSize
  /\ orderSize' = n
  /\ lastOp' = None
  /\ UNCHANGED <<day, engine, globalTimeBig, lastFrameTime, refill, loads,
                 selectedDay, currentMinute, isPlaying, playbackSpeed, layout, charts, contractType,
                 loopContractType, positions, accountBalance, editMode, subscribed,
                 fills>>

\* ------------------------------------------------------------------- frame
\* Math.floor of a fraction that is not negative.
floor(x) == x.n \div x.d

\* Mutant: the advance lags by one.
advanceNs_Lagging(deltaMs, speed) == floor(FMul(deltaMs, Whole(NsPerMs * speed))) - 1

\* advanceNs = BigInt(Math.floor(deltaMs * 1_000_000 * playbackSpeed))
advanceNs(deltaMs, speed) == floor(FMul(deltaMs, Whole(NsPerMs * speed)))

\* The clock and the streams after the advance and the two
\* processInstrumentTick calls of a frame.
advance(eng, clock, deltaMs, speed, made) ==
  LET currentGlobal == clock + advanceNs(deltaMs, speed)
  IN [globalTimeBig |-> currentGlobal,
      engine |-> [k \in Instruments |->
                    processInstrumentTick(eng[k], k \in made, currentGlobal)]]

\* History: the frame that leaves the streams as eng has folded, before its
\* last tick of the symbol, a tick at whose price the open position's stop
\* or target condition holds.
passedOver(sym, eng) ==
  LET k == toLowerCase(sym)
  IN /\ positions[sym] # NoPosition
     /\ \E i \in (engine[k].lastLoadedIndex + 2)..eng[k].lastLoadedIndex :
          \/ slHit(positions[sym], eng[k].buffer[i].price)
          \/ tpHit(positions[sym], eng[k].buffer[i].price)

\* loop(timestamp): one animation frame, with the synchronous part of
\* checkAndFetchMore.  sincePrev is the wall-clock time, in milliseconds as
\* a fraction, between the previous frame's timestamp and this one's.
loop(sincePrev) ==
  /\ isPlaying
  /\ LET deltaMs == IF lastFrameTime = 0 THEN Whole(0) ELSE sincePrev
         currentGlobal == globalTimeBig + advanceNs(deltaMs, playbackSpeed)
     IN /\ currentGlobal <= MaxClock
        /\ lastFrameTime' = 1
        /\ globalTimeBig' = currentGlobal
        /\ engine' = advance(engine, globalTimeBig, deltaMs, playbackSpeed,
                             charts).engine
        /\ LET marks == updatePnL(positions, engine', loopContractType)
           IN /\ positions' = [sym \in Symbols |-> marks[sym].pos]
              /\ accountBalance' = FAdd(FAdd(accountBalance, marks["ES"].realized),
                                        marks["NQ"].realized)
        /\ refill' = checkAndFetchMore(refill, engine')
        /\ lastOp' = IF \E sym \in Symbols :
                          positions[sym] # NoPosition /\ positions'[sym] = NoPosition
                     THEN "frame:trigger"
                     ELSE IF lastOp = "play" THEN "frame:resumed"
                     ELSE IF \E sym \in Symbols : passedOver(sym, engine')
                     THEN "frame:passed"
                     ELSE "frame"
  /\ UNCHANGED <<day, loads, selectedDay, currentMinute, isPlaying, playbackSpeed, layout, charts,
                 contractType, loopContractType, orderSize, editMode, subscribed,
                 fills>>

\* A frame a whole number of milliseconds after the previous one.
Frame(delta) == loop(Whole(delta))

\* ------------------------------------------------------- background refill
\* checkAndFetchMore after an await: the awaited page is merged; the NQ fetch
\* follows the ES fetch when both were needed.
RefillResponse ==
  /\ refill.stage # "idle"
  /\ LET key == refill.stage
         data == GET(day[key], refill.cursor)
         merged == [engine EXCEPT ![key] = merge(engine[key], data)]
     IN /\ engine' = merged
        /\ refill' = IF key = "es" /\ refill.needsNq
                     THEN [stage |-> "nq", cursor |-> merged.nq.cursor,
                           needsNq |-> TRUE, stale |-> FALSE]
                     ELSE NoRefill
        /\ lastOp' = IF refill.stale THEN "refill:stale" ELSE "refill:merged"
  /\ UNCHANGED <<day, globalTimeBig, lastFrameTime, loads, selectedDay, currentMinute, isPlaying,
                 playbackSpeed, layout, charts, contractType, loopContractType,
                 orderSize, positions, accountBalance, editMode, subscribed, fills>>

\* checkAndFetchMore after an await that threw: catch, finally.
RefillFail ==
  /\ refill.stage # "idle"
  /\ refill' = NoRefill
  /\ engine' = IF refill.stale THEN engine
               ELSE [engine EXCEPT ![refill.stage].failed = TRUE]
  /\ lastOp' = "refill:failed"
  /\ UNCHANGED <<day, globalTimeBig, lastFrameTime, loads, selectedDay, currentMinute,
                 isPlaying, playbackSpeed, layout, charts, contractType,
                 loopContractType, orderSize, positions, accountBalance, editMode,
                 subscribed, fills>>

\* ----------------------------------------------------------------- trading
HandleOrder(instrument, side) ==
  /\ visible(instrument)
  /\ engine[instrument].currentPrice # 0
  /\ LET symKey == toUpperCase(instrument)
         r == fillPosition(positions[symKey], side, engine[instrument].currentPrice,
                           orderSize, multiplier(instrument, contractType))
     IN /\ positions' = [positions EXCEPT ![symKey] = r.pos]
        /\ accountBalance' = FAdd(accountBalance, r.realized)
        /\ lastOp' = r.branch
  /\ fills' = fills + 1
  /\ UNCHANGED <<day, engine, globalTimeBig, lastFrameTime, refill, loads,
                 selectedDay, currentMinute, isPlaying, playbackSpeed, layout, charts, contractType,
                 loopContractType, orderSize, editMode, subscribed>>

\* The "Add SL" / "Add TP" button of a position card, and the click effect
\* that re-subscribes the handler on the charts that exist.
SetEditMode(sym, type) ==
  /\ positions[sym] # NoPosition
  /\ editMode' = [symbol |-> sym, type |-> type]
  /\ subscribed' = charts
  /\ lastOp' = None
  /\ UNCHANGED <<day, engine, globalTimeBig, lastFrameTime, refill, loads,
                 selectedDay, currentMinute, isPlaying, playbackSpeed, layout, charts, contractType,
                 loopContractType, orderSize, positions, accountBalance, fills>>

handleChartClick(instrument, price) ==
  /\ instrument \in subscribed
  /\ visible(instrument)
  /\ editMode # NoEdit
  /\ editMode.symbol = toUpperCase(instrument)
  /\ LET pos == positions[editMode.symbol]
         currentPrice == engine[instrument].currentPrice
         next == placeStop(pos, editMode.type, price, currentPrice)
     IN /\ positions' = [positions EXCEPT ![editMode.symbol] = next]
        /\ lastOp' = IF pos = NoPosition THEN None
                     ELSE IF isValid(pos, editMode.type, price, currentPrice)
                     THEN "click:accepted" ELSE "click:rejected"
  /\ editMode' = NoEdit
  /\ subscribed' = charts
  /\ UNCHANGED <<day, engine, globalTimeBig, lastFrameTime, refill, loads,
                 selectedDay, currentMinute, isPlaying, playbackSpeed, layout, charts, contractType,
                 loopContractType, orderSize, accountBalance, fills>>

\* ------------------------------------------------------------------- Spec
Next ==
  \/ \E targetMin \in Targets : LoadData(targetMin)
  \/ \E i \in 1..MaxLoads : LoadComplete(i)
  \/ \E i \in 1..MaxLoads : LoadFail(i)
  \/ TogglePlay
  \/ \E s \in Speeds : SetSpeed(s)
  \/ \E l \in Layouts : SetLayout(l)
  \/ \E ct \in ContractTypes : SetContractType(ct)
  \/ \E n \in OrderSizes : SetOrderSize(n)
  \/ \E delta \in 1..MaxDelta : Frame(delta)
  \/ RefillResponse
  \/ RefillFail
  \/ \E k \in Instruments, side \in Sides : fills < MaxFills /\ HandleOrder(k, side)
  \/ \E sym \in Symbols, type \in StopTypes : SetEditMode(sym, type)
  \/ \E k \in Instruments, price \in ClickPrices : handleChartClick(k, price)

Spec == Init /\ [][Next]_vars

\* The replay engine alone: no orders are placed, playback is not toggled
\* by hand, and a load is started only when none is awaiting its pages.
NextReplay ==
  \/ \E targetMin \in Targets : loads = <<>> /\ LoadData(targetMin)
  \/ \E i \in 1..MaxLoads : LoadComplete(i)
  \/ \E i \in 1..MaxLoads : LoadFail(i)
  \/ \E s \in Speeds : SetSpeed(s)
  \/ \E l \in Layouts : SetLayout(l)
  \/ \E delta \in 1..MaxDelta : Frame(delta)
  \/ RefillResponse
  \/ RefillFail

SpecReplay == Init /\ [][NextReplay]_vars

\* A day on which both instruments trade.
InitBook == Init /\ day.es # <<>> /\ day.nq # <<>>

\* Stops on the displayed instrument, over a session loaded at the open; the
\* contract type is chosen, before or after the load, ahead of the first order.
NextStops ==
  \/ loads = <<>> /\ LoadData(MARKET_OPEN_MIN)
  \/ \E i \in 1..MaxLoads : LoadComplete(i)
  \/ \E delta \in 1..MaxDelta : Frame(delta)
  \/ RefillResponse
  \/ \E ct \in ContractTypes : fills = 0 /\ SetContractType(ct)
  \/ \E k \in Instruments, side \in Sides : fills < MaxFills /\ HandleOrder(k, side)
  \/ \E sym \in Symbols, type \in StopTypes : SetEditMode(sym, type)
  \/ \E k \in Instruments, price \in ClickPrices : handleChartClick(k, price)

SpecStops == InitBook /\ [][NextStops]_vars

\* Fills of every size on the displayed instrument, with a stop-loss attached.
NextFills ==
  \/ loads = <<>> /\ LoadData(MARKET_OPEN_MIN)
  \/ \E i \in 1..MaxLoads : LoadComplete(i)
  \/ \E delta \in 1..MaxDelta : Frame(delta)
  \/ RefillResponse
  \/ \E n \in OrderSizes \ {0} : SetOrderSize(n)
  \/ \E k \in Instruments, side \in Sides : fills < MaxFills /\ HandleOrder(k, side)
  \/ \E sym \in Symbols : SetEditMode(sym, "SL")
  \/ \E k \in Instruments, price \in ClickPrices : handleChartClick(k, price)

SpecFills == InitBook /\ [][NextFills]_vars

\* Unit fills on both instruments, side by side; the contract type is chosen
\* before the first order.
NextBoth ==
  \/ loads = <<>> /\ LoadData(MARKET_OPEN_MIN)
  \/ \E ct \in ContractTypes : fills = 0 /\ SetContractType(ct)
  \/ \E i \in 1..MaxLoads : LoadComplete(i)
  \/ \E delta \in 1..MaxDelta : Frame(delta)
  \/ RefillResponse
  \/ SetLayout("SPLIT")
  \/ \E k \in Instruments, side \in Sides : fills < MaxBothFills /\ HandleOrder(k, side)

SpecBoth == InitBook /\ [][NextBoth]_vars

\* Orders of every quantity the order entry can hold, zero included.
NextQty ==
  \/ loads = <<>> /\ LoadData(MARKET_OPEN_MIN)
  \/ \E i \in 1..MaxLoads : LoadComplete(i)
  \/ \E delta \in 1..MaxDelta : Frame(delta)
  \/ RefillResponse
  \/ \E n \in OrderSizes : SetOrderSize(n)
  \/ \E k \in Instruments, side \in Sides : fills < MaxFills /\ HandleOrder(k, side)

SpecQty == InitBook /\ [][NextQty]_vars

\* The clock: playback paused and resumed, frames any fraction of a
\* millisecond apart, one order.
NextClock ==
  \/ loads = <<>> /\ LoadData(MARKET_OPEN_MIN)
  \/ \E i \in 1..MaxLoads : LoadComplete(i)
  \/ TogglePlay
  \/ \E s \in Speeds : SetSpeed(s)
  \/ \E sincePrev \in Deltas : loop(sincePrev)
  \/ RefillResponse
  \/ \E k \in Instruments, side \in Sides : fills < 1 /\ HandleOrder(k, side)

SpecClock == Init /\ [][NextClock]_vars

\* One session in which every ES refill fetch is rejected and every NQ refill
\* fetch is answered.  Animation frames keep coming while playback runs, and
\* every fetch is settled; a frame that comes when the clock is at the end of
\* the modelled day does not advance it.
EsFetchFails == refill.stage = "es" /\ RefillFail
NqFetchArrives == refill.stage = "nq" /\ RefillResponse
Frames == \E delta \in 0..MaxDelta : Frame(delta)

NextEsDown ==
  \/ selectedDay = "" /\ LoadData(MARKET_OPEN_MIN)
  \/ \E i \in 1..MaxLoads : LoadComplete(i)
  \/ \E s \in Speeds : SetSpeed(s)
  \/ SetLayout("SPLIT")
  \/ Frames
  \/ EsFetchFails
  \/ NqFetchArrives

SpecEsDown ==
  /\ Init
  /\ [][NextEsDown]_vars
  /\ WF_vars(Frames)
  /\ WF_vars(EsFetchFails)
  /\ WF_vars(NqFetchArrives)

\* NQ replayed over every ordered table, at the open or after a seek.
InitCandles == day \in {[es |-> <<>>, nq |-> rows] : rows \in OrderedTables} /\ Constructed

NextCandles ==
  \/ selectedDay = "" /\ LoadData(MARKET_OPEN_MIN)
  \/ \E targetMin \in Targets \ {MARKET_OPEN_MIN} :
       loads = <<>> /\ lastOp = "loaded:open" /\ LoadData(targetMin)
  \/ \E i \in 1..MaxLoads : LoadComplete(i)
  \/ \E delta \in 1..MaxDelta : Frame(delta)
  \/ RefillResponse

SpecCandles == InitCandles /\ [][NextCandles]_vars

\* Loads requested while another is awaiting its pages: the arrow keys
\* pressed in quick succession.
NextOverlap ==
  \/ \E targetMin \in Targets : LoadData(targetMin)
  \/ \E i \in 1..MaxLoads : LoadComplete(i)
  \/ \E delta \in 1..MaxDelta : Frame(delta)
  \/ RefillResponse

SpecOverlap == Init /\ [][NextOverlap]_vars

\* Stops on NQ over a day on which one frame can fold a rise and the fall
\* after it.
InitMarks == day = MarkDay /\ Constructed

NextMarks ==
  \/ selectedDay = "" /\ LoadData(MARKET_OPEN_MIN)
  \/ \E i \in 1..MaxLoads : LoadComplete(i)
  \/ \E delta \in 1..MaxDelta : Frame(delta)
  \/ RefillResponse
  \/ \E k \in Instruments, side \in Sides : fills < MaxFills /\ HandleOrder(k, side)
  \/ \E sym \in Symbols, type \in StopTypes : SetEditMode(sym, type)
  \/ \E k \in Instruments, price \in ClickPrices : handleChartClick(k, price)

SpecMarks == InitMarks /\ [][NextMarks]_vars

\* The account over a session that is traded, paused and resumed while a
\* position is open, and, after the last order, reloaded at the open or at
\* a later minute.
NextBalance ==
  \/ selectedDay = "" /\ LoadData(MARKET_OPEN_MIN)
  \/ \E targetMin \in {MARKET_OPEN_MIN, MARKET_OPEN_MIN + 1} :
       loads = <<>> /\ fills = MaxFills /\ LoadData(targetMin)
  \/ \E i \in 1..MaxLoads : LoadComplete(i)
  \/ (\E sym \in Symbols : positions[sym] # NoPosition) /\ TogglePlay
  \/ \E delta \in 1..MaxDelta : Frame(delta)
  \/ RefillResponse
  \/ \E k \in Instruments, side \in Sides : fills < MaxFills /\ HandleOrder(k, side)
  \/ \E sym \in Symbols, type \in StopTypes : SetEditMode(sym, type)
  \/ \E k \in Instruments, price \in ClickPrices : handleChartClick(k, price)

SpecBalance == InitBook /\ [][NextBalance]_vars

\* ================================================================= claims
IsReset == \E targetMin \in Targets : LoadData(targetMin)
IsFrame == \E delta \in 1..MaxDelta : Frame(delta)

\* Re-running the frame on the present state with the clock where it is.
Rerun(k) == processInstrumentTick(engine[k], k \in charts, globalTimeBig)

\* C1: between two session resets the consume index of every stream never
\* decreases, over frames, seeks and refill merges; the ticks folded since
\* the reset are exactly the buffer positions 0..lastLoadedIndex, each folded
\* once; and a frame re-run with the clock unchanged folds no tick.
C1_NoDoubleFold ==
  [][/\ IsReset \/ \A k \in Instruments :
                     engine'[k].lastLoadedIndex >= engine[k].lastLoadedIndex
     /\ \A k \in Instruments : engine'[k].folds = engine'[k].lastLoadedIndex + 1
     /\ IsFrame => \A k \in Instruments :
                     /\ Rerun(k)'.lastLoadedIndex = engine'[k].lastLoadedIndex
                     /\ Rerun(k)'.folds = engine'[k].folds]_vars

\* A frame has folded ticks of a page that a refill merged.
C1_Witness ==
  /\ lastOp = "frame"
  /\ Len(engine.nq.buffer) > Limit
  /\ engine.nq.lastLoadedIndex >= Limit

\* C2: a refill response whose request was issued before the session was
\* reset writes nothing into the stream state of the new session.
C2_StaleRefillDiscarded ==
  [][(refill.stale /\ RefillResponse) => engine' = engine]_vars

\* The first buffered tick of a stream at or after a minute, as a set.
FirstAtOrAfter(buffer, minute) ==
  LET at == {i \in 1..Len(buffer) : buffer[i].m >= minute}
  IN IF at = {} THEN {}
     ELSE {buffer[CHOOSE i \in at : \A j \in at : i <= j].ts}

SeekTargets == UNION {FirstAtOrAfter(engine[k].buffer, currentMinute) : k \in Instruments}

\* C3: after a seek to minute m the virtual clock is the earliest, over the
\* instruments, of the first buffered tick with minuteOfDay >= m.
C3_SeekClockIsEarliest ==
  (lastOp = "loaded:seek" /\ SeekTargets # {})
    => /\ globalTimeBig \in SeekTargets
       /\ \A ts \in SeekTargets : globalTimeBig <= ts

\* C4: a seek whose target no buffered tick reaches starts no session:
\* playback stays stopped and no tick is folded.
C4_SeekWithoutDataFails ==
  (lastOp = "loaded:seek" /\ SeekTargets = {})
    => /\ ~isPlaying
       /\ \A k \in Instruments : engine[k].lastLoadedIndex = -1

\* ------------------------------------------------------ position book claims
\* What a claim calls the realized profit of n contracts of a position
\* closed at a price, for a contract type.
Realized(pos, price, n, instrument, ct) ==
  LET diff == IF pos.side = "LONG" THEN FSub(Whole(price), pos.avgPrice)
              ELSE FSub(pos.avgPrice, Whole(price))
      multi == IF ct = "MINI" THEN INSTRUMENTS[instrument].multiplierMini
               ELSE INSTRUMENTS[instrument].multiplierMicro
  IN FMul(FMul(diff, Whole(n)), Whole(multi))

Triggered(pos, price) ==
  IF pos.side = "LONG"
  THEN (pos.sl # 0 /\ price <= pos.sl) \/ (pos.tp # 0 /\ price >= pos.tp)
  ELSE (pos.sl # 0 /\ price >= pos.sl) \/ (pos.tp # 0 /\ price <= pos.tp)

\* The positions a frame's mark closes, and what the mark realizes for one.
Due == {sym \in Symbols :
          /\ positions[sym] # NoPosition
          /\ Triggered(positions[sym], engine'[toLowerCase(sym)].currentPrice)}
MarkRealized(sym) ==
  IF sym \in Due
  THEN Realized(positions[sym], engine'[toLowerCase(sym)].currentPrice,
                positions[sym].size, toLowerCase(sym), loopContractType)
  ELSE Whole(0)

CannotExecute(pos, type, price, currentPrice) ==
  IF pos.side = "LONG"
  THEN IF type = "SL" THEN price < currentPrice ELSE price > currentPrice
  ELSE IF type = "SL" THEN price > currentPrice ELSE price < currentPrice

\* C6: a stop request on an open position is accepted exactly when it cannot
\* execute at once against the latest price; accepted, it changes the
\* requested one of sl and tp and nothing else; rejected, it changes nothing.
C6_StopValidation ==
  [][\A k \in Instruments, price \in ClickPrices :
       (handleChartClick(k, price) /\ positions[editMode.symbol] # NoPosition) =>
         LET sym == editMode.symbol
             pos == positions[sym]
         IN /\ accountBalance' = accountBalance
            /\ positions' =
                 IF CannotExecute(pos, editMode.type, price, engine[k].currentPrice)
                 THEN [positions EXCEPT ![sym] =
                         IF editMode.type = "SL" THEN [pos EXCEPT !.sl = price]
                         ELSE [pos EXCEPT !.tp = price]]
                 ELSE positions]_vars

\* A request was rejected while a stop was attached, which is still there.
C6_Witness ==
  /\ lastOp = "click:rejected"
  /\ \E sym \in Symbols : positions[sym].sl # 0 \/ positions[sym].tp # 0

IsFill(k, side) == HandleOrder(k, side) /\ positions[toUpperCase(k)] # NoPosition

\* C7: an opposite-side fill larger than the position closes and flips it:
\* the balance grows by the profit on the existing size, and the position
\* becomes the incoming side at the fill price with the excess size, pnl 0
\* and no stop-loss or take-profit.
C7_CloseAndFlip ==
  [][\A k \in Instruments, side \in Sides :
       LET existing == positions[toUpperCase(k)]
           price == engine[k].currentPrice
       IN (IsFill(k, side) /\ existing.side # side /\ orderSize > existing.size) =>
            /\ accountBalance' =
                 FAdd(accountBalance,
                      Realized(existing, price, existing.size, k, contractType))
            /\ positions'[toUpperCase(k)] =
                 [side |-> side, avgPrice |-> Whole(price),
                  size |-> orderSize - existing.size,
                  sl |-> 0, tp |-> 0, pnl |-> Whole(0)]]_vars

C7_Witness ==
  /\ lastOp = "order:flip"
  /\ accountBalance # Whole(StartBalance)
  /\ \E sym \in Symbols : positions[sym].size = 1 /\ positions[sym].sl = 0

\* C8: an opposite-side fill smaller than the position is a partial close:
\* the balance grows by the profit on the fill size, the size shrinks by the
\* fill size, and side, avgPrice, sl and tp stay.
C8_PartialClose ==
  [][\A k \in Instruments, side \in Sides :
       LET existing == positions[toUpperCase(k)]
           price == engine[k].currentPrice
       IN (IsFill(k, side) /\ existing.side # side /\ orderSize < existing.size) =>
            /\ accountBalance' =
                 FAdd(accountBalance,
                      Realized(existing, price, orderSize, k, contractType))
            /\ positions'[toUpperCase(k)] =
                 [existing EXCEPT !.size = existing.size - orderSize]]_vars

C8_Witness ==
  /\ lastOp = "order:partial"
  /\ accountBalance # Whole(StartBalance)
  /\ \E sym \in Symbols : positions[sym].size = 1 /\ positions[sym].sl # 0

\* C9: an opposite-side fill of exactly the position's size is a full close:
\* the balance grows by the profit on the whole size, the instrument has no
\* position afterwards, and the other instrument's position is untouched.
C9_FullClose ==
  [][\A k \in Instruments, side \in Sides :
       LET existing == positions[toUpperCase(k)]
           price == engine[k].currentPrice
       IN (IsFill(k, side) /\ existing.side # side /\ orderSize = existing.size) =>
            /\ accountBalance' =
                 FAdd(accountBalance,
                      Realized(existing, price, existing.size, k, contractType))
            /\ positions'[toUpperCase(k)] = NoPosition
            /\ \A other \in Symbols \ {toUpperCase(k)} :
                 positions'[other] = positions[other]]_vars

C9_Witness ==
  /\ lastOp = "order:close"
  /\ accountBalance # Whole(StartBalance)
  /\ \E sym \in Symbols : positions[sym] # NoPosition

\* C10: a same-side fill averages the price over the sizes, adds the sizes
\* and leaves side, sl, tp and the balance alone; a fill with no position
\* opens one with the fill's side, price and size and pnl 0.
C10_AddAndOpen ==
  [][\A k \in Instruments, side \in Sides :
       LET existing == positions[toUpperCase(k)]
           price == engine[k].currentPrice
       IN /\ (IsFill(k, side) /\ existing.side = side) =>
               /\ accountBalance' = accountBalance
               /\ positions'[toUpperCase(k)] =
                    [existing EXCEPT
                       !.avgPrice =
                          Frac(existing.avgPrice.n * existing.size
                                 + price * orderSize * existing.avgPrice.d,
                               existing.avgPrice.d * (existing.size + orderSize)),
                       !.size = existing.size + orderSize]
          /\ (HandleOrder(k, side) /\ existing = NoPosition) =>
               /\ accountBalance' = accountBalance
               /\ positions'[toUpperCase(k)] =
                    [side |-> side, avgPrice |-> Whole(price), size |-> orderSize,
                     sl |-> 0, tp |-> 0, pnl |-> Whole(0)]]_vars

\* A fill was averaged into a position that carries a stop, at a price that
\* is not a whole number.
C10_Witness ==
  /\ lastOp = "order:add"
  /\ \E sym \in Symbols :
       /\ positions[sym].avgPrice.d # 1
       /\ positions[sym].sl # 0 \/ positions[sym].tp # 0

\* C11: every position in the book has size > 0, whatever quantities the
\* order entry held when the orders were placed; a position whose size
\* would be 0 is absent.
C11_PositionSizePositive ==
  \A sym \in Symbols : positions[sym] # NoPosition => positions[sym].size > 0

IsLoadComplete == \E i \in 1..MaxLoads : LoadComplete(i)
IsOrder == \E k \in Instruments, side \in Sides : HandleOrder(k, side)
IsLoop == \E sincePrev \in Deltas : loop(sincePrev)

\* C12: while playback is paused no step other than a load or an order
\* changes the clock, a consume index, a candle or a position; resuming
\* restarts frame timing, and a frame that finds frame timing restarted
\* leaves the clock where it was, however long the pause lasted.
C12_PauseAddsNoTime ==
  [][/\ (~isPlaying /\ ~IsReset /\ ~IsLoadComplete /\ ~IsOrder) =>
          /\ globalTimeBig' = globalTimeBig
          /\ positions' = positions
          /\ \A k \in Instruments :
               /\ engine'[k].lastLoadedIndex = engine[k].lastLoadedIndex
               /\ engine'[k].candle = engine[k].candle
     /\ lastOp = "play" => lastFrameTime = 0
     /\ (IsLoop /\ lastFrameTime = 0) => globalTimeBig' = globalTimeBig]_vars

\* The first frame after a resume has run, in a session whose clock had
\* moved past its first ticks before the pause.
C12_Witness ==
  /\ lastOp = "frame:resumed"
  /\ globalTimeBig > 3
  /\ \E k \in Instruments : engine[k].lastLoadedIndex >= 1

\* C13: within a session the clock never decreases: every frame leaves it
\* at or above its previous value, and so does every other step except a
\* session reset and the seek that completes a load.
C13_ClockMonotonic ==
  [][/\ IsFrame => globalTimeBig' >= globalTimeBig
     /\ (~IsReset /\ ~IsLoadComplete) => globalTimeBig' >= globalTimeBig]_vars

\* Frames have moved the clock of a session loaded at the open.
C13_Witness ==
  /\ lastOp = "frame"
  /\ currentMinute = MARKET_OPEN_MIN
  /\ globalTimeBig >= 5

\* The clock and the streams after frames sincePrev1 and then sincePrev2
\* after the previous frame, no page arriving in between.
TwoFrames(sincePrev1, sincePrev2) ==
  LET first == advance(engine, globalTimeBig, sincePrev1, playbackSpeed, charts)
  IN advance(first.engine, first.globalTimeBig, sincePrev2, playbackSpeed, charts)

OneFrame(sincePrev) == advance(engine, globalTimeBig, sincePrev, playbackSpeed, charts)

\* C14: from a playing state, one frame after a wall-clock delta D and two
\* frames whose deltas sum to D end with the same clock and, for every
\* instrument, the same candle, currentPrice and consume index.
C14_SplitDeltaEquivalence ==
  (isPlaying /\ lastFrameTime # 0) =>
    \A d1 \in Deltas, d2 \in Deltas :
      LET one == OneFrame(FAdd(d1, d2))
          two == TwoFrames(d1, d2)
      IN /\ one.globalTimeBig = two.globalTimeBig
         /\ \A k \in Instruments :
              /\ one.engine[k].candle = two.engine[k].candle
              /\ one.engine[k].currentPrice = two.engine[k].currentPrice
              /\ one.engine[k].lastLoadedIndex = two.engine[k].lastLoadedIndex

\* A refill request for a stream is out: its fetch is awaited, or it follows
\* the ES fetch of the same check.
Requested(rf, k) ==
  \/ rf.stage = k
  \/ k = "nq" /\ rf.stage = "es" /\ rf.needsNq

\* C15: the refill check of a frame issues a request for every stream that
\* needs one and has none out, whether or not the other stream has one out,
\* and issues none for a stream that has one out.
C15_RefillPerStream ==
  [][IsFrame =>
       \A k \in Instruments :
         /\ (needs(engine'[k]) /\ ~Requested(refill, k)) => Requested(refill', k)
         /\ Requested(refill, k) => refill' = refill]_vars

\* needsRefill as the claim states it: pending = buffered and not yet folded.
pendingCount(state) == Len(state.buffer) - state.folds
NeedsRefill(state) == ~state.done /\ pendingCount(state) < THRESHOLD

\* C16: the refill check of a frame, no refill being in flight, finds that
\* a stream needs a refill exactly when the stream is not exhausted and its
\* pending count is strictly below the threshold.
C16_NeedsRefillThreshold ==
  [][(IsFrame /\ refill.stage = "idle") =>
       \A k \in Instruments : Requested(refill', k) <=> NeedsRefill(engine'[k])]_vars

\* C17: while every ES refill fetch fails, a playing session whose NQ
\* stream needs a refill eventually has it refilled: the page is merged and
\* the stream needs none, or is exhausted.
C17_EsFailureDoesNotHaltNq ==
  (isPlaying /\ needs(engine.nq)) ~> ~needs(engine.nq)

\* C18: a rejected refill fetch leaves every stream's buffer, cursor and
\* exhausted flag, the clock and playback as they were and clears the
\* in-flight flag; and a later refill check that finds a stream still in
\* need whose latest fetch was rejected sends the stream's request again,
\* from the stream's unchanged cursor, before the check ends.
C18_FailedRefillRetried ==
  [][/\ RefillFail =>
          /\ refill' = NoRefill
          /\ globalTimeBig' = globalTimeBig
          /\ isPlaying' = isPlaying
          /\ \A k \in Instruments :
               /\ engine'[k].buffer = engine[k].buffer
               /\ engine'[k].cursor = engine[k].cursor
               /\ engine'[k].done = engine[k].done
     /\ \A k \in Instruments :
          /\ (IsFrame /\ refill.stage = "idle" /\ engine[k].failed
                /\ needs(engine'[k])) =>
               /\ Requested(refill', k)
               /\ refill'.stage = k => refill'.cursor = engine[k].cursor
          /\ (engine[k].failed /\ Requested(refill, k) /\ refill.stage # k) =>
               /\ refill'.stage = k => refill'.cursor = engine[k].cursor
               /\ Requested(refill', k) \/ IsReset]_vars

Ordered(buffer) ==
  \A i \in 1..(Len(buffer) - 1) : buffer[i].ts <= buffer[i + 1].ts

\* The page breaks the order of the buffer it is appended to.
BreaksOrder(buffer, page) ==
  /\ buffer # <<>>
  /\ \E i \in 1..Len(page) : page[i].ts < buffer[Len(buffer)].ts

\* C19: a refill page with a tick older than the buffer's last tick is
\* rejected, the stream's buffer, cursor and exhausted flag staying as they
\* were; and the buffer of every stream is ordered by timestamp after every
\* step.
C19_AppendKeepsOrder ==
  [][/\ (RefillResponse
          /\ BreaksOrder(engine[refill.stage].buffer,
                         GET(day[refill.stage], refill.cursor).ticks)) =>
          /\ engine'[refill.stage].buffer = engine[refill.stage].buffer
          /\ engine'[refill.stage].cursor = engine[refill.stage].cursor
          /\ engine'[refill.stage].done = engine[refill.stage].done
     /\ \A k \in Instruments : Ordered(engine'[k].buffer)]_vars

\* The first page of a stream, and the timestamp of its first tick.
FirstPage(k) == GET(day[k], 0).ticks
FirstTs(k) == FirstPage(k)[1].ts

\* The earliest first tick over the streams whose first page has ticks.
Earliest ==
  LET has == {k \in Instruments : FirstPage(k) # <<>>}
  IN CHOOSE ts \in {FirstTs(k) : k \in has} : \A k \in has : ts <= FirstTs(k)

\* C20: a load whose pages have arrived starts playback exactly when a
\* first page has ticks: with both pages empty it reports no data, playback
\* stays stopped and the clock stays 0; otherwise playback starts with the
\* clock seeded to the earliest first tick of the pages that have ticks
\* (from where a seek then moves it forward).
C20_LoadStartsIffData ==
  [][\A i \in 1..MaxLoads :
       LoadComplete(i) =>
         IF \A k \in Instruments : FirstPage(k) = <<>>
         THEN ~isPlaying' /\ globalTimeBig' = 0 /\ lastOp' = "loaded:nodata"
         ELSE /\ isPlaying'
              /\ loads[i] = MARKET_OPEN_MIN => globalTimeBig' = Earliest
              /\ globalTimeBig' >= Earliest]_vars

\* A session has started on the one stream that has data.
C20_Witness ==
  /\ lastOp = "loaded:open"
  /\ isPlaying
  /\ \E k \in Instruments : engine[k].buffer = <<>>
  /\ \E k \in Instruments : engine[k].buffer # <<>> /\ globalTimeBig = engine[k].buffer[1].ts

\* C21: every open candle, whether frames or a seek folded it, has
\* low <= open <= high and low <= close <= high.
C21_CandleBounds ==
  \A k \in Instruments :
    LET c == engine[k].candle
    IN c # NoCandle =>
         /\ c.low <= c.open /\ c.open <= c.high
         /\ c.low <= c.close /\ c.close <= c.high

\* A seek has folded two ticks of different prices into one candle.
C21_Witness ==
  /\ lastOp = "loaded:seek"
  /\ \E k \in Instruments :
       /\ engine[k].lastLoadedIndex >= 1
       /\ engine[k].candle.low < engine[k].candle.high

\* The tick a stream folds next.
HasPending(k) == engine[k].lastLoadedIndex + 1 < Len(engine[k].buffer)
Pending(k) == engine[k].buffer[engine[k].lastLoadedIndex + 2]

\* C22: a tick whose minute is earlier than the open candle's bucket opens
\* no candle at that earlier minute: the frame that folds it leaves the
\* candle's time unchanged and takes the tick's price into high, low and
\* close.
C22_EarlierTickFoldsIntoOpenCandle ==
  [][\A k \in Instruments :
       LET c == engine[k].candle
       IN (/\ IsFrame
           /\ c # NoCandle
           /\ HasPending(k)
           /\ engine'[k].lastLoadedIndex = engine[k].lastLoadedIndex + 1
           /\ minuteTime(Pending(k).ts) < c.time)
          => /\ engine'[k].candle.time = c.time
             /\ engine'[k].candle.high = Max(c.high, Pending(k).price)
             /\ engine'[k].candle.low = Min(c.low, Pending(k).price)
             /\ engine'[k].candle.close = Pending(k).price]_vars

\* Floor-to-minute of a timestamp, in seconds.
FloorToMinute(ts) == LET seconds == ts \div NsPerSec IN seconds - (seconds % SecPerMin)

\* The candle after each tick of a sequence, folded in order from state.
RECURSIVE CandlesOf(_, _)
CandlesOf(state, ticks) ==
  IF ticks = <<>> THEN <<>>
  ELSE LET next == foldTick(state, Head(ticks))
       IN <<next.candle>> \o CandlesOf(next, Tail(ticks))

\* C23: over a buffer in timestamp order, the candles' open times never
\* decrease, the candle a tick is folded into has the tick's floor-to-minute
\* as its open time, so that a candle exists only for a minute of which a
\* tick was folded, and the stream's open candle is the one its last folded
\* tick went into.
C23_CandlesFollowMinutes ==
  \A k \in Instruments :
    LET buffer == engine[k].buffer
        candles == CandlesOf(NewStream, buffer)
    IN Ordered(buffer) =>
         /\ \A i, j \in 1..Len(buffer) : i <= j => candles[i].time <= candles[j].time
         /\ \A i \in 1..Len(buffer) : candles[i].time = FloorToMinute(buffer[i].ts)
         /\ engine[k].lastLoadedIndex >= 0 =>
              engine[k].candle = candles[engine[k].lastLoadedIndex + 1]

\* Frames have folded three ticks, two of one minute and one of a later.
C23_Witness ==
  /\ lastOp = "frame"
  /\ engine.nq.lastLoadedIndex = 2
  /\ FloorToMinute(engine.nq.buffer[1].ts) = FloorToMinute(engine.nq.buffer[2].ts)
  /\ FloorToMinute(engine.nq.buffer[2].ts) < FloorToMinute(engine.nq.buffer[3].ts)
  /\ engine.nq.candle.time = FloorToMinute(engine.nq.buffer[3].ts)

\* The streams and the clock a seek to the same target would leave, started
\* in the present state and served the same pages.
SeekAgain ==
  session([k \in Instruments |-> resetStream(engine[k])], 0,
          GET(day.es, 0), GET(day.nq, 0), currentMinute)

\* C24: in the state a completed seek leaves, seeking to the same target
\* again leaves the same clock, the same buffer, cursor, consume index,
\* candle and current price of every stream, and the same, empty, position
\* book.
C24_SeekTwiceSameState ==
  lastOp = "loaded:seek" =>
    /\ SeekAgain.op = "loaded:seek"
    /\ SeekAgain.globalTimeBig = globalTimeBig
    /\ SeekAgain.engine = engine
    /\ positions = [sym \in Symbols |-> NoPosition]

\* A seek has folded ticks and moved the clock to the first tick at the
\* target.
C24_Witness ==
  /\ lastOp = "loaded:seek"
  /\ globalTimeBig > 1
  /\ \E k \in Instruments :
       /\ engine[k].lastLoadedIndex >= 0
       /\ engine[k].lastLoadedIndex + 1 < Len(engine[k].buffer)

\* C25: after every executed frame no stream, displayed or not, whose
\* buffer is in timestamp order has a pending tick with a timestamp at or
\* before the clock.
C25_NoPendingTickBehindClock ==
  [][IsFrame =>
       \A k \in Instruments :
         Ordered(engine'[k].buffer) =>
           \A i \in (engine'[k].lastLoadedIndex + 2)..Len(engine'[k].buffer) :
             engine'[k].buffer[i].ts > globalTimeBig']_vars

\* The first n ticks of a buffer in a stream that has folded none, and the
\* largest timestamp among them.
Unfolded(buffer, n) == [NewStream EXCEPT !.buffer = SubSeq(buffer, 1, n)]
LastDue(buffer, n) ==
  CHOOSE ts \in {buffer[i].ts : i \in 1..n} : \A i \in 1..n : buffer[i].ts <= ts

\* The prefix folded by a seek to the minute after its last, by one frame
\* with the clock at its last tick, and by two frames, the first with the
\* clock at c.
SeekFold(buffer, n) ==
  processSync(Unfolded(buffer, n), MinuteOfDay(LastDue(buffer, n)) + 1).state
LiveFold(buffer, n) ==
  processInstrumentTick(Unfolded(buffer, n), TRUE, LastDue(buffer, n))
LiveFoldInTwo(buffer, n, c) ==
  processInstrumentTick(processInstrumentTick(Unfolded(buffer, n), TRUE, c),
                        TRUE, LastDue(buffer, n))

Aggregate(state) ==
  [candle |-> state.candle, currentPrice |-> state.currentPrice,
   lastLoadedIndex |-> state.lastLoadedIndex]

Alone ==
  session([k \in Instruments |-> resetStream(engine[k])], 0,
          GET(day.es, 0), GET(day.nq, 0), currentMinute)
Replayed(state) ==
  [buffer |-> state.buffer, cursor |-> state.cursor, done |-> state.done,
   lastLoadedIndex |-> state.lastLoadedIndex, candle |-> state.candle]

\* C27: when two loads overlap, then once both have completed, in either
\* order of the responses, the clock and every stream's buffer, cursor,
\* consume index and candle are what the load requested later would have
\* left alone.
C27_LaterLoadWins ==
  [][\A i \in 1..MaxLoads :
       (/\ lastOp \in {"loaded:open", "loaded:seek"}
        /\ Len(loads) = 1
        /\ LoadComplete(i))
       => /\ globalTimeBig' = Alone.globalTimeBig
          /\ \A k \in Instruments :
               Replayed(engine'[k]) = Replayed(Alone.engine[k])]_vars

\* C28: from a session reset until the first tick of the new session is
\* folded for an instrument, the instrument's current price shows no price
\* of the previous session, and an order placed on it opens no position.
C28_ResetHidesOldPrices ==
  [][/\ \A k \in Instruments :
          (IsReset /\ engine[k].currentPrice # 0) => engine'[k].currentPrice = 0
     /\ \A k \in Instruments, side \in Sides :
          (HandleOrder(k, side) /\ engine[k].folds = 0)
            => positions'[toUpperCase(k)] = NoPosition]_vars

\* The buffer positions, counted from 1, of the ticks a frame folds.
FoldedNow(k) == (engine[k].lastLoadedIndex + 2)..(engine'[k].lastLoadedIndex + 1)

\* C29: a frame marks each position once, after every tick up to the clock
\* has been folded, against the price of the last tick folded: the position
\* is closed exactly when that price satisfies its stop or target, whatever
\* the prices of the ticks folded before it in the same frame, and a
\* position left open carries the pnl at that price.
C29_MarkedOnceAtLastPrice ==
  [][IsFrame =>
       \A sym \in Symbols :
         LET k == toLowerCase(sym)
             pos == positions[sym]
             last == engine'[k].currentPrice
         IN pos # NoPosition =>
              /\ FoldedNow(k) # {} =>
                   last = engine'[k].buffer[engine'[k].lastLoadedIndex + 1].price
              /\ \A i \in FoldedNow(k) : engine'[k].buffer[i].ts <= globalTimeBig'
              /\ positions'[sym] = NoPosition <=> Triggered(pos, last)
              /\ ~Triggered(pos, last) =>
                   /\ positions'[sym].pnl =
                        Realized(pos, last, pos.size, k, loopContractType)
                   /\ accountBalance' = FAdd(accountBalance,
                        MarkRealized(IF sym = "ES" THEN "NQ" ELSE "ES"))]_vars

\* A frame has folded a tick at the target's price and then a tick below
\* it, and the position with that target is still open.
C29_Witness ==
  /\ lastOp = "frame:passed"
  /\ positions["NQ"].side = "LONG"
  /\ positions["NQ"].tp # 0
  /\ engine.nq.candle.high >= positions["NQ"].tp
  /\ engine.nq.currentPrice < positions["NQ"].tp
  /\ accountBalance = Whole(StartBalance)

\* What a fill realizes: the pnl of the contracts an opposite-side fill
\* closes, nothing for an opening or an adding fill.
FillRealized(k, side) ==
  LET pos == positions[toUpperCase(k)]
  IN IF pos # NoPosition /\ pos.side # side
     THEN Realized(pos, engine[k].currentPrice, Min(pos.size, orderSize), k,
                   contractType)
     ELSE Whole(0)

\* C30: the balance changes only by the realized pnl of a fill that reduces,
\* closes or flips a position, or of a stop or target that a frame's mark
\* triggers; an opening or adding fill, a stop set or rejected, a mark that
\* triggers nothing, a pause or a resume, and a reload or a seek leave it
\* as it is.
C30_BalanceChangesOnlyByRealized ==
  [][/\ \A k \in Instruments, side \in Sides :
          HandleOrder(k, side) =>
            accountBalance' = FAdd(accountBalance, FillRealized(k, side))
     /\ IsFrame =>
          accountBalance' =
            FAdd(FAdd(accountBalance, MarkRealized("NQ")), MarkRealized("ES"))
     /\ (~IsOrder /\ ~IsFrame) => accountBalance' = accountBalance]_vars

\* A session has been reloaded with a realized loss or gain on the account.
C30_Witness ==
  /\ lastOp = "loadData"
  /\ fills > 0
  /\ accountBalance # Whole(StartBalance)

\* C31: following the endpoint's pages from cursor 0, each request with the
\* cursor the previous response returned, until a response reports done,
\* gives every tick of the day once and in timestamp order, ticks that
\* share the timestamp of a page's last tick included: a stream whose
\* session has loaded and whose latest page reported done holds the day's
\* rows.
C31_PaginationReturnsEveryTick ==
  \A k \in Instruments :
    (/\ selectedDay # ""
     /\ loads = <<>>
     /\ engine[k].done)
    => engine[k].buffer = day[k]

====
